---- MODULE Spec2Model ----
(***************************************************************************)
(* Deployment pipeline of deployify-BE: the /upload handler routes a       *)
(* request to deployApplication or deployMongoDB, which drive the docker   *)
(* daemon and the ngrok control API through a fixed sequence of awaited    *)
(* calls.  Each action below is one awaited external call together with    *)
(* the synchronous code that follows it up to the next await; requests     *)
(* interleave only at these points (single-threaded event loop).           *)
(***************************************************************************)
EXTENDS Integers, Sequences, FiniteSets, TLC

\* ---------------------------------------------------------------- bounds
Reqs == {"r1", "r2"}
Names == {"a", "b"}
MaxFaults == 3
RandomGrain == 2
SessionIds == {"s1"}
Socks == {"w1", "w2"}

\* ------------------------------------------------------ program constants
basePort == 30000
maxPort == 40000
maxRetries == 2
defaultInternalPort == 3000
defaultInternalPortV1 == 8080
ngrokInspectPort == 4040

VARIABLES
    config,      \* which deploymentService / mongoDeploymentService is loaded
    req,         \* request bodies
    pc,          \* per request: "start", "run", "cleanupList", "cleanupStop",
                 \*              "cleanupRemove", "done", "rejected", "spin"
    at,          \* per request: index of the awaited call in the handler's plan
    log,         \* per request: history of external calls <<op, outcome>>
    response,    \* per request: the HTTP response sent (status 0 = none yet)
    ctx,         \* per request: the active cleanupContainer call
    retries,     \* per request: local `retries` of buildImageWithRetry
    ports,       \* per request: results of getAvailablePort, with the listing read
    containers,  \* docker: container name -> [state, owner, port]
    images,      \* docker: RepoTag -> who produced it ("none" = absent)
    endpoints,   \* ngrok: reserved addresses and domains
    dirs,        \* filesystem: directories under PROJECTS_DIR, with their writer
    cleanups,    \* per request: how each cleanupContainer call ended
    faults,      \* number of external calls that failed on their own
    progress,    \* per request: the percentages passed to sendProgress, in order
    sent,        \* per request: what ws.send forwarded in its latest sendProgress calls
    profile,     \* per request: `config` returned by getLanguageConfig (part_005)
    registry,    \* progressService.activeConnections: sessionId -> socket
    sock         \* WebSocket connections: readyState and the sessionId of the url

vars == <<config, req, pc, at, log, response, ctx, retries, ports,
          containers, images, endpoints, dirs, cleanups, faults,
          progress, sent, profile, registry, sock>>

\* ------------------------------------------------------------------ names
Deployify(n) == <<"deployify", n>>
MongoExpress(n) == <<"mongo-express", n>>
Ngrok(n) == <<"ngrok", n>>
ContainerNames ==
    {Deployify(n) : n \in Names} \cup {MongoExpress(n) : n \in Names}
        \cup {Ngrok(n) : n \in Names}

NodeImage == <<(<<"node">>), "23-alpine3.20">>
MongoImage == <<(<<"mongo">>), "6.0">>
MongoExpressImage == <<(<<"mongo-express">>), "latest">>
PythonImage == <<(<<"python">>), "3.13.1-alpine3.21">>
PhpImage == <<(<<"php">>), "8.2-cli">>
GolangImage == <<(<<"golang">>), "1.23.5-alpine3.21">>
Mongo7Image == <<(<<"mongo">>), "7.0.5">>
\* "ngrok/ngrok": a reference without a tag
NgrokImage == <<(<<"ngrok/ngrok">>)>>
\* the RepoTag under which docker keeps a pulled reference
LocalTag(ref) == IF Len(ref) = 1 THEN Append(ref, "latest") ELSE ref
BuiltTag(c) == <<c, "latest">>
RepoTags ==
    {NodeImage, MongoImage, MongoExpressImage, PythonImage, PhpImage, GolangImage, Mongo7Image,
     LocalTag(NgrokImage)}
        \cup {BuiltTag(c) : c \in ContainerNames}

NoContainer == [state |-> "absent", owner |-> "none", port |-> 0, env |-> <<>>]
\* res.json of an error carries {error}; no deployment data
NoBody == [url |-> "none", internalPort |-> 0, exposedPort |-> 0]
NoResponse == [status |-> 0, label |-> "none", err |-> "none", body |-> NoBody]
NoCtx == [target |-> <<"none", "none">>, site |-> "none", err |-> "none", found |-> "none"]

\* ------------------------------------------------------- handler plans
\* The awaited calls of each handler, in source order.
PlanP6 == <<"nameCheck", "ensureImage", "getPort", "reserveDomain", "build",
            "verifyImage", "create", "startC", "inspect">>
PlanP5PortFirst == <<"getPort", "nameCheck", "reserveDomain", "ensureImage", "build",
                     "verifyImage", "create", "startC", "inspect">>

PlanP5 == <<"nameCheck", "getPort", "reserveDomain", "ensureImage", "build",
            "verifyImage", "create", "startC", "inspect">>
PlanM1 == <<"nameCheck", "ensureImage", "getPort", "reserveAddr", "buildDirect",
            "create", "startC",
            "ensureImage", "getPort", "reserveDomain", "buildDirect",
            "create", "startC">>

Impl(r) == IF req[r].lang = "mongodb" THEN config.mongoImpl ELSE config.appImpl

\* deployMongoDB of part_002: MongoDB container, then the ngrok container
PlanM2 == <<"nameCheck", "reserveAddr", "getPort",
            "ensureImage", "create", "startC",
            "ensureImage", "create", "startC">>

Plan(impl) ==
    CASE impl = "part_006" -> PlanP6
      [] impl = "part_005" -> PlanP5
      [] impl = "part_001" -> PlanM1
      [] impl = "part_002" -> PlanM2

Kind(r) == Plan(Impl(r))[at[r]]
\* A request in "spin" is inside a synchronous loop that never exits; the
\* single thread runs nothing else while it does.
EventLoopFree == \A q \in Reqs : pc[q] # "spin"

Running(r, k) == pc[r] = "run" /\ Kind(r) = k /\ EventLoopFree

\* Second instance (Mongo Express) of the two-instance flow.
SecondInstance(r) ==
    \/ Impl(r) = "part_001" /\ at[r] > 7
    \/ Impl(r) = "part_002" /\ at[r] > 6

SecondName(r) ==
    IF Impl(r) = "part_002" THEN Ngrok(req[r].name) ELSE MongoExpress(req[r].name)

Target(r) == IF SecondInstance(r) THEN SecondName(r) ELSE Deployify(req[r].name)

\* ------------------------------------------------------ language profiles
\* A string of the request body that may be undefined, kept as its words
\* (what split(" ") returns); the empty string has no words.
NoRunCommand == [given |-> FALSE, words |-> <<>>]

RECURSIVE Join(_)
Join(ws) ==
    IF ws = <<>> THEN ""
    ELSE IF Len(ws) = 1 THEN ws[1]
    ELSE ws[1] \o " " \o Join(Tail(ws))

Truthy(rc) == rc.given /\ Join(rc.words) # ""

\* runCommand || dflt
OrElse(rc, dflt) == IF Truthy(rc) THEN Join(rc.words) ELSE dflt

\* (runCommand ? runCommand.split(" ")[1] : null) || "index.php"
PhpScript(rc) ==
    IF Truthy(rc) /\ Len(rc.words) >= 2 /\ rc.words[2] # "" THEN rc.words[2] ELSE "index.php"

NoProfile ==
    [baseImage |-> <<>>, installCommand |-> "", startCommand |-> "",
     isAlpine |-> FALSE, useYarn |-> FALSE, setupTools |-> ""]

\* the `configs` table of getLanguageConfig
configs(internalPort, runCommand) ==
    [nodejs |-> [baseImage |-> NodeImage, installCommand |-> "npm install",
                 startCommand |-> OrElse(runCommand, "node server.js"),
                 isAlpine |-> TRUE, useYarn |-> FALSE],
     python |-> [baseImage |-> PythonImage,
                 installCommand |-> "pip install -r requirements.txt",
                 startCommand |-> OrElse(runCommand,
                     "python manage.py runserver 0.0.0.0:" \o ToString(internalPort)),
                 isAlpine |-> TRUE, useYarn |-> FALSE],
     php |-> [baseImage |-> PhpImage, installCommand |-> "composer install",
              startCommand |-> "php -S 0.0.0.0:" \o ToString(internalPort)
                                  \o " -t /var/www/html " \o PhpScript(runCommand),
              isAlpine |-> FALSE, useYarn |-> FALSE],
     golang |-> [baseImage |-> GolangImage,
                 installCommand |-> "go mod download && go build -o /app/app .",
                 startCommand |-> "/app/app", isAlpine |-> TRUE, useYarn |-> FALSE],
     nextjs |-> [baseImage |-> NodeImage, installCommand |-> "yarn install && yarn build",
                 startCommand |-> "PORT=" \o ToString(internalPort) \o " yarn start",
                 isAlpine |-> TRUE, useYarn |-> TRUE],
     reactjs |-> [baseImage |-> NodeImage,
                  installCommand |-> "yarn install && yarn build && npm install -g serve",
                  startCommand |-> "serve -s build -l " \o ToString(internalPort),
                  isAlpine |-> TRUE, useYarn |-> TRUE],
     vuejs |-> [baseImage |-> NodeImage,
                installCommand |-> "yarn install && yarn build && npm install -g serve",
                startCommand |-> "serve -s dist -l " \o ToString(internalPort),
                isAlpine |-> TRUE, useYarn |-> TRUE],
     angularjs |-> [baseImage |-> NodeImage,
                    installCommand |-> "npm install -g @angular/cli && npm install && npm run build && npm install -g serve",
                    startCommand |-> "serve -s dist/angular/browser -l " \o ToString(internalPort),
                    isAlpine |-> TRUE, useYarn |-> FALSE],
     html |-> [baseImage |-> NodeImage, installCommand |-> "npm install -g http-server",
               startCommand |-> "http-server . -p " \o ToString(internalPort),
               isAlpine |-> TRUE, useYarn |-> FALSE],
     mongodb |-> [baseImage |-> Mongo7Image, installCommand |-> "",
                  startCommand |-> "mongod --bind_ip 0.0.0.0 --port " \o ToString(internalPort),
                  isAlpine |-> FALSE, useYarn |-> FALSE]]

ConfigKeys == DOMAIN configs(defaultInternalPort, NoRunCommand)

\* configs[language] || configs.nodejs, then config.setupTools
getLanguageConfigNoDefault(language, internalPort, containerPort, runCommand) ==
    LET table == configs(internalPort, runCommand)
        chosen == IF language \in ConfigKeys THEN table[language] ELSE table.nodejs
        start == IF language = "nodejs" THEN Join(runCommand.words) ELSE chosen.startCommand
    IN  [baseImage |-> chosen.baseImage, installCommand |-> chosen.installCommand,
         startCommand |-> start, isAlpine |-> chosen.isAlpine,
         useYarn |-> chosen.useYarn,
         setupTools |-> IF chosen.isAlpine THEN "apk add --no-cache curl unzip socat"
                        ELSE "apt-get update && apt-get install -y curl unzip socat"]

getLanguageConfig(language, internalPort, containerPort, runCommand) ==
    LET table == configs(internalPort, runCommand)
        chosen == IF language \in ConfigKeys THEN table[language] ELSE table.nodejs
    IN  [baseImage |-> chosen.baseImage, installCommand |-> chosen.installCommand,
         startCommand |-> chosen.startCommand, isAlpine |-> chosen.isAlpine,
         useYarn |-> chosen.useYarn,
         setupTools |-> IF chosen.isAlpine THEN "apk add --no-cache curl unzip socat"
                        ELSE "apt-get update && apt-get install -y curl unzip socat"]

\* the cases of `switch (language)` in deployApplication (part_006)
SwitchCases ==
    {"nodejs", "python", "php", "golang", "nextjs", "reactjs", "vuejs", "angularjs", "html"}

SwitchBaseImage(language) ==
    CASE language = "python" -> PythonImage
      [] language = "php" -> PhpImage
      [] language = "golang" -> GolangImage
      [] OTHER -> NodeImage

\* installCommand of the first switch; "" where the case leaves it undefined
SwitchInstallCommand(language) ==
    CASE language = "nodejs" -> "npm install"
      [] language = "python" -> "pip install -r requirements.txt"
      [] language = "php" -> "composer install"
      [] language = "golang" -> "go mod download && go build -o /app/app ."
      [] OTHER -> ""

\* defaultRunCommand of the first switch
defaultRunCommand(language, runCommand) ==
    CASE language = "nodejs" -> OrElse(runCommand, "node server.js")
      [] language = "python" -> OrElse(runCommand, "python manage.py runserver 0.0.0.0:8000")
      [] language = "golang" -> "/app/app"
      [] OTHER -> ""

\* appStartCommand of the second switch, written into start.sh
appStartCommand(language, internalPort, runCommand) ==
    CASE language \in {"nodejs", "python", "golang"} -> defaultRunCommand(language, runCommand)
      [] language = "php" ->
            "php -S 0.0.0.0:" \o ToString(internalPort) \o " -t /var/www/html "
                \o PhpScript(runCommand)
      [] language = "nextjs" -> "yarn start"
      [] language = "reactjs" -> "serve -s build -l " \o ToString(internalPort)
      [] language = "vuejs" -> "serve -s dist -l " \o ToString(internalPort)
      [] language = "angularjs" -> "serve -s dist/angular/browser -l " \o ToString(internalPort)
      [] language = "html" -> "http-server . -p " \o ToString(internalPort)
      [] OTHER -> ""

\* what part_006 writes into the Dockerfile and start.sh
SwitchProfile(language, internalPort, runCommand) ==
    [baseImage |-> SwitchBaseImage(language),
     installCommand |-> SwitchInstallCommand(language),
     startCommand |-> appStartCommand(language, internalPort, runCommand)]

\* JavaScript numbers: an integer or NaN
Pct(n) == [num |-> TRUE, val |-> n]
NaN == [num |-> FALSE, val |-> 0]

\* ---------------------------------------------------------- port detection
\* What fileContent.match(pattern) yields for each entry of portPatterns:
\* hit = the pattern matched, digits/val = capture group 1 (match[1]).
NoMatch == [hit |-> FALSE, digits |-> FALSE, val |-> 0]
Digits(n) == [hit |-> TRUE, digits |-> TRUE, val |-> n]
\* the Go pattern's group 1 is the host part (":" or "0.0.0.0:"), the port
\* is group 2
HostPart == [hit |-> TRUE, digits |-> FALSE, val |-> 0]
Patterns == 1..7
Nothing == [k \in Patterns |-> NoMatch]

\* decoded content of the uploaded files, by path
Content(path) ==
    CASE path = "server.js" -> [Nothing EXCEPT ![2] = Digits(4000)]
      [] path = "main.go" -> [Nothing EXCEPT ![1] = HostPart]
      [] path = "app.py" -> [Nothing EXCEPT ![3] = Digits(5000), ![4] = Digits(5000)]
      [] path = "bad.js" -> [Nothing EXCEPT ![2] = Digits(0), ![7] = Digits(9000)]
      [] path = "big.js" -> [Nothing EXCEPT ![2] = Digits(70000)]
      [] OTHER -> Nothing

\* parseInt(match[1], 10)
parseInt(m) == IF m.digits THEN Pct(m.val) ELSE NaN

\* match && match[1], then foundPort > 0 && foundPort < 65536
ValidMatch(m) == m.hit /\ parseInt(m).num /\ parseInt(m).val > 0 /\ parseInt(m).val < 65536

\* for (const pattern of portPatterns) { ... break; }: null is 0
DetectInFile(path) ==
    LET c == Content(path)
        ok == {k \in Patterns : ValidMatch(c[k])}
    IN IF ok = {} THEN 0
       ELSE parseInt(c[CHOOSE k \in ok : \A j \in ok : k <= j]).val

\* the file loop of part_005: guarded by `if (!detectedPort)`
RECURSIVE DetectGuarded(_, _)
DetectGuarded(files, detectedPort) ==
    IF files = <<>> THEN detectedPort
    ELSE DetectGuarded(Tail(files),
                       IF detectedPort = 0 /\ DetectInFile(Head(files)) # 0
                       THEN DetectInFile(Head(files)) ELSE detectedPort)

\* the file loop of part_006: every file with a valid match assigns
RECURSIVE DetectEach(_, _)
DetectEach(files, detectedUserPort) ==
    IF files = <<>> THEN detectedUserPort
    ELSE DetectEach(Tail(files),
                    IF DetectInFile(Head(files)) # 0
                    THEN DetectInFile(Head(files)) ELSE detectedUserPort)

\* detectedPort || 3000 (part_005), detectedUserPort || 8080 (part_006)
InternalPort(r) ==
    IF Impl(r) = "part_005"
    THEN (IF DetectGuarded(req[r].files, 0) # 0
          THEN DetectGuarded(req[r].files, 0) ELSE defaultInternalPort)
    ELSE (IF DetectEach(req[r].files, 0) # 0
          THEN DetectEach(req[r].files, 0) ELSE defaultInternalPortV1)

BaseImage(r) ==
    CASE Impl(r) = "part_001" ->
            (IF SecondInstance(r) THEN MongoExpressImage ELSE MongoImage)
      [] Impl(r) = "part_002" ->
            (IF SecondInstance(r) THEN NgrokImage ELSE MongoImage)
      [] Impl(r) = "part_006" -> SwitchBaseImage(req[r].lang)
      [] Impl(r) = "part_005" -> profile[r].baseImage

\* Variant: deploymentService_v2 writing the project directory before the
\* domain is reserved.
DirWrittenBeforeReservation(impl, i, n) ==
    CASE impl = "part_006" /\ i = 1 -> {<<"project", n>>}
      [] impl = "part_005" /\ i = 2 -> {<<"project", n>>}
      [] impl = "part_001" /\ i = 4 -> {<<"mongo", n>>}
      [] impl = "part_001" /\ i = 10 -> {<<"mongo-express", n>>}
      [] OTHER -> {}

\* Directories written by the synchronous code that follows plan step i.
DirWrittenAfter(impl, i, n) ==
    CASE impl = "part_006" /\ i = 1 -> {<<"project", n>>}
      [] impl = "part_005" /\ i = 3 -> {<<"project", n>>}
      [] impl = "part_001" /\ i = 4 -> {<<"mongo", n>>}
      [] impl = "part_001" /\ i = 10 -> {<<"mongo-express", n>>}
      [] OTHER -> {}

\* --------------------------------------------------------- progress events

\* Math.floor((completed / totalFiles) * 20) + 5; 0 / 0 is NaN
FileShareP6(completed, totalFiles) ==
    IF totalFiles = 0 THEN NaN ELSE Pct((completed * 20) \div totalFiles + 5)

\* Math.floor(15 + (i + 1) / files.length * 15), k = i + 1
FileShareP5(k, length) == Pct(15 + (k * 15) \div length)

\* !files.some(f => f.path === "go.mod")
NoGoMod(files) == \A i \in DOMAIN files : files[i] # "go.mod"

\* the file loop of part_006 and its go.mod step
FilesProgressP6(language, files) ==
    (IF files = <<>> THEN <<>>
     ELSE [k \in 1..Len(files) |-> FileShareP6(k, Len(files))])
    \o (IF language = "golang" /\ NoGoMod(files)
        THEN <<FileShareP6(Len(files), Len(files))>> ELSE <<>>)

\* the file loop of part_005
FilesProgressP5(files) ==
    IF files = <<>> THEN <<>>
    ELSE [k \in 1..Len(files) |-> FileShareP5(k, Len(files))]

\* sendProgress calls of the synchronous code that follows plan step at[r]
ProgressAfter(r) ==
    LET impl == Impl(r)
        i == at[r]
    IN  CASE impl = "part_006" /\ i = 1 ->
                <<Pct(5)>> \o FilesProgressP6(req[r].lang, req[r].files) \o <<Pct(30)>>
                    \o (IF req[r].lang \in SwitchCases THEN <<Pct(35)>> ELSE <<>>)
          [] impl = "part_006" /\ i = 3 -> <<Pct(40)>>
          [] impl = "part_006" /\ i = 4 -> <<Pct(45), Pct(50)>>
          [] impl = "part_006" /\ i = 6 -> <<Pct(85)>>
          [] impl = "part_006" /\ i = 9 -> <<Pct(100)>>
          [] impl = "part_005" /\ i = 1 -> <<Pct(5)>>
          [] impl = "part_005" /\ i = 2 -> <<Pct(10)>>
          [] impl = "part_005" /\ i = 3 ->
                <<Pct(15)>> \o FilesProgressP5(req[r].files) \o <<Pct(40)>>
          [] impl = "part_005" /\ i = 4 -> <<Pct(50)>>
          [] impl = "part_005" /\ i = 6 -> <<Pct(85)>>
          [] impl = "part_005" /\ i = 9 -> <<Pct(100)>>
          [] impl = "part_001" /\ i = 1 -> <<Pct(5)>>
          [] impl = "part_001" /\ i = 2 -> <<Pct(15)>>
          [] impl = "part_001" /\ i = 3 -> <<Pct(25)>>
          [] impl = "part_001" /\ i = 4 -> <<Pct(30), Pct(35)>>
          [] impl = "part_001" /\ i = 5 -> <<Pct(45)>>
          [] impl = "part_001" /\ i = 7 -> <<Pct(50)>>
          [] impl = "part_001" /\ i = 9 -> <<Pct(60)>>
          [] impl = "part_001" /\ i = 10 -> <<Pct(70)>>
          [] impl = "part_001" /\ i = 11 -> <<Pct(85)>>
          [] impl = "part_001" /\ i = 13 -> <<Pct(100)>>
          [] impl = "part_002" /\ i = 1 -> <<Pct(10)>>
          [] impl = "part_002" /\ i = 2 -> <<Pct(20)>>
          [] impl = "part_002" /\ i = 3 -> <<Pct(30), Pct(40)>>
          [] impl = "part_002" /\ i = 6 -> <<Pct(50), Pct(60)>>
          [] impl = "part_002" /\ i = 9 -> <<Pct(80), Pct(100)>>
          [] OTHER -> <<>>

\* ws && ws.readyState === WebSocket.OPEN, ws = activeConnections.get(sessionId)
Deliverable(sessionId) ==
    /\ sessionId \in SessionIds
    /\ registry[sessionId] # "none"
    /\ sock[registry[sessionId]].state = "open"

\* showProgress calls process.stdout.clearLine, which exists only on a TTY
SendThrows == ~config.tty

\* sendProgress for each percentage of evs in turn
sendProgress(r, evs) ==
    /\ progress' = [progress EXCEPT ![r] = @ \o evs]
    /\ sent' = IF evs = <<>> THEN sent
               ELSE [sent EXCEPT ![r] = IF Deliverable(req[r].sid) THEN evs ELSE <<>>]

\* ------------------------------------------------------------ pure helpers
\* `${imageName}:latest` compared against RepoTags.
WithLatest(ref) == Append(ref, "latest")
imageExists(imageName) == \E t \in RepoTags : images[t] # "none" /\ t = WithLatest(imageName)

\* containers.some(c => c.Names.includes(`/${containerName}`)) over listContainers({all: true})
NameTakenRunningOnly(c) == containers[c].state = "running"

NameTaken(c) == containers[c].state # "absent"

\* img.RepoTags.includes(`${containerName}:latest`)
TagPresent(c) == images[BuiltTag(c)] # "none"

\* PublicPort of every container in docker.listContainers() (running only).
UsedPorts == {containers[c].port : c \in {d \in ContainerNames :
                 containers[d].state = "running" /\ containers[d].port # 0}}

\* Math.floor(Math.random() * (maxPort - basePort) + basePort), Math.random() = s/RandomGrain
RandomPort(s) == (s * (maxPort - basePort)) \div RandomGrain + basePort

\* do { ... } while (usedPorts.has(port))
PortAcceptedAlways(port, usedPorts) == port = port

PortAccepted(port, usedPorts) == port \notin usedPorts

Outcomes == IF faults < MaxFaults THEN {"ok", "fail"} ELSE {"ok"}
OutcomesIf(pre) == IF pre THEN Outcomes ELSE {"forced"}
BuildOutcomes == IF faults < MaxFaults THEN {"ok", "okNoTag", "throw", "streamErr"} ELSE {"ok"}
Fault(o) == faults' = IF o \in {"fail", "okNoTag", "throw", "streamErr"} THEN faults + 1 ELSE faults
Res(o) == IF o = "ok" THEN "ok" ELSE "fail"

AddLog(r, op, o) == log' = [log EXCEPT ![r] = Append(@, <<op, o>>)]

\* ---------------------------------------------------------- control flow
\* Each of these fixes pc, at, response, ctx, dirs, progress, sent and profile.
ReplyWith(r, evs, st, lab, e) ==
    /\ pc' = [pc EXCEPT ![r] = "done"]
    /\ response' = [response EXCEPT ![r] =
                        [status |-> st, label |-> lab, err |-> e, body |-> NoBody]]
    /\ sendProgress(r, evs)
    /\ UNCHANGED <<at, ctx, dirs, profile>>

Reply(r, st, lab, e) == ReplyWith(r, <<>>, st, lab, e)

\* the handler's promise rejects with no response sent
RejectWith(r, evs) ==
    /\ pc' = [pc EXCEPT ![r] = "rejected"]
    /\ sendProgress(r, evs)
    /\ UNCHANGED <<at, response, ctx, dirs, profile>>

Reject(r) == RejectWith(r, <<>>)

CallCleanupWith(r, evs, c, site, e) ==
    /\ pc' = [pc EXCEPT ![r] = "cleanupList"]
    /\ ctx' = [ctx EXCEPT ![r] = [target |-> c, site |-> site, err |-> e, found |-> "none"]]
    /\ sendProgress(r, evs)
    /\ UNCHANGED <<at, response, dirs, profile>>

CallCleanup(r, c, site, e) == CallCleanupWith(r, <<>>, c, site, e)

\* sendProgress threw on the first percentage of evs: the catch block that
\* encloses the synchronous code after plan step at[r]
SendFailed(r, evs) ==
    LET first == <<evs[1]>> IN
    CASE Impl(r) = "part_006" /\ at[r] <= 4 -> ReplyWith(r, first, 500, "upload", "sendProgress")
      [] Impl(r) = "part_006" /\ at[r] \in 5..8 -> ReplyWith(r, first, 500, "build", "sendProgress")
      [] Impl(r) = "part_006" /\ at[r] = 9 ->
            CallCleanupWith(r, first, Deployify(req[r].name), "p6start", "sendProgress")
      [] Impl(r) = "part_005" -> ReplyWith(r, first, 500, "deploy", "sendProgress")
      [] Impl(r) = "part_001" ->
            CallCleanupWith(r, first, MongoExpress(req[r].name), "m1catchA", "sendProgress")
      [] Impl(r) = "part_002" ->
            CallCleanupWith(r, first, Ngrok(req[r].name), "m2catchA", "sendProgress")

\* HostPort of the port binding: the port getAvailablePort returned last;
\* the ngrok container of part_002 binds "4040"
HostPort(r) ==
    IF Impl(r) = "part_002" /\ SecondInstance(r) THEN ngrokInspectPort
    ELSE ports[r][Len(ports[r])].port

\* ngrokService as deploymentService_v2 uses it: the caller passes the
\* subdomain, the service appends the zone and returns response.data.domain
createNgrokReservedDomainV2(subdomain) == subdomain \o ".ngrok.app"

\* ngrokService as deploymentService and mongoDeploymentService use it: the
\* caller passes the whole domain and reads .domain of the returned record
createNgrokReservedDomain(domain) == [domain |-> domain]

\* the address ngrok assigns to reservation `MongoDB-<name>`
createNgrokReservedAddress(n) == "tcp.ngrok.io:" \o n

\* the domain the handler of request r holds after its reservation
ReservedDomain(r) ==
    IF Impl(r) = "part_005"
    THEN createNgrokReservedDomainV2("deployify-" \o req[r].name)
    ELSE createNgrokReservedDomain("deployify-" \o req[r].name \o ".ngrok.app").domain

\* locals ngrokEndpoint / appDomain / mongoExpressDomain / mongoNgrokAddress
Held(r, kind) == (CHOOSE e \in endpoints : e.owner = r /\ e.kind = kind).value

\* body of the 200 response
SuccessBody(r) ==
    IF Impl(r) = "part_001"
    THEN [mongodbUrl |-> Held(r, "addr"), mongoExpressUrl |-> "https://" \o Held(r, "domain")]
    ELSE IF Impl(r) = "part_002"
    THEN [mongodbUrl |-> Held(r, "addr"), port |-> ports[r][1].port]
    ELSE [url |-> "https://" \o Held(r, "domain"),
          internalPort |-> InternalPort(r),
          exposedPort |-> HostPort(r)]

\* default: return res.status(400).json({error: "Unsupported language."})
Unsupported(r) == Impl(r) = "part_006" /\ at[r] = 1 /\ req[r].lang \notin SwitchCases

\* the synchronous code after plan step at[r], up to the next await or the
\* success response
Advance(r) ==
    IF SendThrows /\ ProgressAfter(r) # <<>>
    THEN SendFailed(r, ProgressAfter(r))
    ELSE
    /\ dirs' = dirs \cup {<<d, r>> : d \in DirWrittenAfter(Impl(r), at[r], req[r].name)}
    /\ sendProgress(r, ProgressAfter(r))
    /\ profile' = IF Impl(r) = "part_005" /\ at[r] = 3
                  THEN [profile EXCEPT ![r] =
                           getLanguageConfig(req[r].lang, InternalPort(r),
                                             ports[r][Len(ports[r])].port, req[r].runCommand)]
                  ELSE IF Impl(r) = "part_006" /\ at[r] = 4
                  THEN [profile EXCEPT ![r] =
                           SwitchProfile(req[r].lang, InternalPort(r), req[r].runCommand)]
                  ELSE profile
    /\ IF Unsupported(r)
       THEN /\ pc' = [pc EXCEPT ![r] = "done"]
            /\ response' = [response EXCEPT ![r] =
                                [status |-> 400, label |-> "unsupported", err |-> "none",
                                 body |-> NoBody]]
            /\ UNCHANGED <<at, ctx>>
       ELSE IF at[r] = Len(Plan(Impl(r)))
       THEN /\ pc' = [pc EXCEPT ![r] = "done"]
            /\ response' = [response EXCEPT ![r] =
                                [status |-> 200, label |-> "ok", err |-> "none",
                                 body |-> SuccessBody(r)]]
            /\ UNCHANGED <<at, ctx>>
       ELSE /\ at' = [at EXCEPT ![r] = @ + 1]
            /\ UNCHANGED <<pc, response, ctx>>

\* catch blocks of deployApplication (part_006)
CatchP6NoInnerCatch(r, e) ==
    CASE Kind(r) \in {"nameCheck", "ensureImage", "getPort"} -> Reply(r, 500, "upload", e)
      [] Kind(r) = "reserveDomain" -> Reply(r, 500, "ngrokDomain", e)
      [] Kind(r) \in {"build", "verifyImage"} -> Reply(r, 500, "build", e)
      [] Kind(r) \in {"create", "startC", "inspect"} -> Reject(r)

CatchP6(r, e) ==
    CASE Kind(r) \in {"nameCheck", "ensureImage", "getPort"} -> Reply(r, 500, "upload", e)
      [] Kind(r) = "reserveDomain" -> Reply(r, 500, "ngrokDomain", e)
      [] Kind(r) \in {"build", "verifyImage"} -> Reply(r, 500, "build", e)
      [] Kind(r) \in {"create", "startC", "inspect"} ->
            CallCleanup(r, Deployify(req[r].name), "p6start", e)

\* catch block of deployApplication (part_005)
CatchP5Swallow(r, e) ==
    IF Kind(r) = "build" THEN Advance(r) ELSE Reply(r, 500, "deploy", e)

CatchP5(r, e) == Reply(r, 500, "deploy", e)

\* catch blocks of deployMongoDB (part_001)
CatchM1NoRollback(r, e) ==
    CASE Kind(r) = "reserveAddr" -> Reply(r, 500, "ngrokAddr", e)
      [] Kind(r) = "reserveDomain" -> Reply(r, 500, "expressDomain", e)
      [] OTHER -> CallCleanup(r, MongoExpress(req[r].name), "m1catchA", e)

CatchM1(r, e) ==
    CASE Kind(r) = "reserveAddr" -> Reply(r, 500, "ngrokAddr", e)
      [] Kind(r) = "reserveDomain" ->
            CallCleanup(r, Deployify(req[r].name), "m1domain", e)
      [] OTHER -> CallCleanup(r, MongoExpress(req[r].name), "m1catchA", e)

\* catch blocks of deployMongoDB (part_002)
CatchM2(r, e) ==
    IF Kind(r) = "reserveAddr" THEN Reply(r, 500, "ngrokAddr", e)
    ELSE CallCleanup(r, Ngrok(req[r].name), "m2catchA", e)

Catch(r, e) ==
    CASE Impl(r) = "part_006" -> CatchP6(r, e)
      [] Impl(r) = "part_005" -> CatchP5(r, e)
      [] Impl(r) = "part_001" -> CatchM1(r, e)
      [] Impl(r) = "part_002" -> CatchM2(r, e)

\* if (sessionId && errorMessage) sendProgress(sessionId, 0, errorMessage)
CleanupNotice(r) ==
    IF req[r].sid # "undefined" /\ ctx[r].site \in {"p6start", "m1catchB"}
    THEN <<Pct(0)>> ELSE <<>>

NoticeThrows(r) == SendThrows /\ CleanupNotice(r) # <<>>

\* the end of cleanupContainer: the terminal notice, then errorMessage is
\* returned to the caller
CleanupReturn(r) ==
    CASE ctx[r].site = "p6start" ->
            IF NoticeThrows(r)
            THEN ReplyWith(r, CleanupNotice(r), 500, "build", "sendProgress")
            ELSE ReplyWith(r, CleanupNotice(r), 500, "start", ctx[r].err)
      [] ctx[r].site = "m1domain" -> Reply(r, 500, "expressDomain", ctx[r].err)
      [] ctx[r].site = "m1catchA" ->
            CallCleanup(r, Deployify(req[r].name), "m1catchB", ctx[r].err)
      [] ctx[r].site = "m1catchB" ->
            IF NoticeThrows(r)
            THEN RejectWith(r, CleanupNotice(r))
            ELSE ReplyWith(r, CleanupNotice(r), 500, "mongo", ctx[r].err)
      [] ctx[r].site = "m2catchA" ->
            CallCleanup(r, Deployify(req[r].name), "m2catchB", ctx[r].err)
      [] ctx[r].site = "m2catchB" -> Reply(r, 500, "mongo", ctx[r].err)

\* cleanupContainer threw (its listing failed) at the call site
CleanupThrow(r) ==
    CASE ctx[r].site = "p6start" -> Reply(r, 500, "build", "cleanup.list")
      [] ctx[r].site = "m1domain" ->
            CallCleanup(r, MongoExpress(req[r].name), "m1catchA", "cleanup.list")
      [] ctx[r].site \in {"m1catchA", "m1catchB", "m2catchA", "m2catchB"} -> Reject(r)

\* ------------------------------------------------------------------- Init
Workloads ==
    {w \in [Reqs -> [name : Names, lang : {"nodejs", "mongodb"}, valid : BOOLEAN,
                     sid : {"undefined"}, files : {<<"server.js">>},
                     runCommand : {NoRunCommand}]] :
        w["r1"].name = "a" /\ w["r1"].valid /\ w["r1"].lang = "nodejs"}

\* everything but the configuration and the requests, before any request runs
IdleService ==
    /\ pc = [r \in Reqs |-> "start"]
    /\ at = [r \in Reqs |-> 1]
    /\ log = [r \in Reqs |-> <<>>]
    /\ response = [r \in Reqs |-> NoResponse]
    /\ ctx = [r \in Reqs |-> NoCtx]
    /\ retries = [r \in Reqs |-> 0]
    /\ ports = [r \in Reqs |-> <<>>]
    /\ images = [t \in RepoTags |-> "none"]
    /\ endpoints = {}
    /\ dirs = {}
    /\ cleanups = [r \in Reqs |-> <<>>]
    /\ faults = 0
    /\ progress = [r \in Reqs |-> <<>>]
    /\ sent = [r \in Reqs |-> <<>>]
    /\ profile = [r \in Reqs |-> NoProfile]
    /\ registry = [s \in SessionIds |-> "none"]
    /\ sock = [w \in Socks |-> [state |-> "idle", sid |-> "s1"]]

\* ... on a docker host with no container
Idle ==
    /\ IdleService
    /\ containers = [c \in ContainerNames |-> NoContainer]

Init ==
    /\ config \in [appImpl : {"part_006", "part_005"}, mongoImpl : {"part_001"}, tty : {TRUE}, token : {TRUE}]
    /\ req \in Workloads
    /\ Idle

\* ---------------------------------------------------------------- actions
\* The handler up to its first await (docker.listContainers({all:true})):
\* deployApplication tests NGROK_AUTHTOKEN and then the request body,
\* deployMongoDB tests projectName and then NGROK_AUTHTOKEN.
TokenFirst(impl) == impl \in {"part_006", "part_005"}

Start(r) ==
    /\ pc[r] = "start"
    /\ EventLoopFree
    /\ CASE ~config.token /\ (TokenFirst(Impl(r)) \/ req[r].valid) ->
                Reply(r, 500, "noToken", "none")
         [] ~req[r].valid /\ (config.token \/ ~TokenFirst(Impl(r))) ->
                Reply(r, 400, "invalid", "none")
         [] OTHER ->
                /\ pc' = [pc EXCEPT ![r] = "run"]
                /\ UNCHANGED <<at, response, ctx, dirs, progress, sent, profile>>
    /\ UNCHANGED <<config, req, registry, sock, cleanups, log, retries, ports, containers, images, endpoints, faults>>

\* The name gate: containers.some(c => c.Names.includes(`/${containerName}`)).
NameCheck(r) ==
    /\ Running(r, "nameCheck")
    /\ \E o \in Outcomes :
        /\ Fault(o)
        /\ AddLog(r, "listContainersAll", o)
        /\ IF o = "fail" THEN Catch(r, "listContainersAll")
           ELSE IF NameTaken(Deployify(req[r].name))
                THEN Reply(r, 400, "conflict", "none")
                ELSE Advance(r)
    /\ UNCHANGED <<config, req, registry, sock, cleanups, retries, ports, containers, images, endpoints>>

\* ensureImageExists(baseImage)
EnsureImage(r) ==
    /\ Running(r, "ensureImage")
    /\ \E o \in Outcomes :
        /\ Fault(o)
        /\ IF o = "fail"
           THEN /\ AddLog(r, "pull", "fail")
                /\ Catch(r, "pull")
                /\ UNCHANGED images
           ELSE /\ IF imageExists(BaseImage(r))
                   THEN AddLog(r, "imageExists", "ok") /\ UNCHANGED images
                   ELSE /\ AddLog(r, "pull", "ok")
                        /\ images' = [images EXCEPT ![LocalTag(BaseImage(r))] =
                                         IF @ = "none" THEN "pulled" ELSE @]
                /\ Advance(r)
    /\ UNCHANGED <<config, req, registry, sock, cleanups, retries, ports, containers, endpoints>>

\* do { port = ... } while (usedPorts.has(port)) with every port of the
\* range in usedPorts: no draw ends the loop
Spin(r) ==
    /\ pc' = [pc EXCEPT ![r] = "spin"]
    /\ UNCHANGED <<at, response, ctx, dirs, progress, sent, profile>>

\* getAvailablePort(): the listing, then the draws of the loop up to the
\* first port that is not in usedPorts
GetPort(r) ==
    /\ Running(r, "getPort")
    /\ \E o \in Outcomes :
        /\ Fault(o)
        /\ AddLog(r, "listContainers", o)
        /\ IF o = "fail"
           THEN Catch(r, "listContainers") /\ UNCHANGED ports
           ELSE IF \A s \in 0..(RandomGrain - 1) : ~PortAccepted(RandomPort(s), UsedPorts)
           THEN Spin(r) /\ UNCHANGED ports
           ELSE \E s \in 0..(RandomGrain - 1) :
                    /\ PortAccepted(RandomPort(s), UsedPorts)
                    /\ ports' = [ports EXCEPT ![r] =
                                    Append(@, [port |-> RandomPort(s), seen |-> UsedPorts])]
                    /\ Advance(r)
    /\ UNCHANGED <<config, req, registry, sock, cleanups, retries, containers, images, endpoints>>

\* createNgrokReservedDomain / createNgrokReservedAddress: one POST each
Reserve(r, kind, op) ==
    /\ \E o \in Outcomes :
        /\ Fault(o)
        /\ AddLog(r, op, o)
        /\ IF o = "fail"
           THEN Catch(r, op) /\ UNCHANGED endpoints
           ELSE /\ endpoints' = endpoints \cup
                        {[kind |-> kind, name |-> req[r].name, owner |-> r,
                          value |-> IF kind = "domain"
                                    THEN ReservedDomain(r)
                                    ELSE createNgrokReservedAddress(req[r].name)]}
                /\ Advance(r)
    /\ UNCHANGED <<config, req, registry, sock, cleanups, retries, ports, containers, images>>

ReserveDomain(r) == Running(r, "reserveDomain") /\ Reserve(r, "domain", "reserveDomain")
ReserveAddr(r) == Running(r, "reserveAddr") /\ Reserve(r, "addr", "reserveAddr")


\* buildImageWithRetry: one iteration of `while (retries <= maxRetries)`.  The
\* promise that follows the build stream is returned without await, so its
\* rejection leaves the function directly.
Build(r) ==
    /\ Running(r, "build")
    /\ \E o \in BuildOutcomes :
        /\ Fault(o)
        /\ AddLog(r, "buildImage", o)
        /\ CASE o = "throw" ->
                  /\ retries' = [retries EXCEPT ![r] = @ + 1]
                  /\ UNCHANGED images
                  /\ IF retries[r] + 1 <= maxRetries
                     THEN UNCHANGED <<pc, at, response, ctx, dirs, progress, sent, profile>>
                     ELSE Catch(r, "buildImage")
             [] o = "streamErr" ->
                  /\ UNCHANGED <<retries, images>>
                  /\ Catch(r, "buildImage")
             [] o = "okNoTag" ->
                  /\ UNCHANGED <<retries, images>>
                  /\ Advance(r)
             [] o = "ok" ->
                  /\ UNCHANGED retries
                  /\ images' = [images EXCEPT ![BuiltTag(Target(r))] = r]
                  /\ Advance(r)
    /\ UNCHANGED <<config, req, registry, sock, cleanups, ports, containers, endpoints>>

\* docker.buildImage + followProgress as deployMongoDB calls them (no retry)
BuildDirect(r) ==
    /\ Running(r, "buildDirect")
    /\ \E o \in BuildOutcomes :
        /\ Fault(o)
        /\ AddLog(r, "buildImage", o)
        /\ CASE o \in {"throw", "streamErr"} ->
                  /\ UNCHANGED images
                  /\ Catch(r, "buildImage")
             [] o = "okNoTag" ->
                  /\ UNCHANGED images
                  /\ Advance(r)
             [] o = "ok" ->
                  /\ images' = [images EXCEPT ![BuiltTag(Target(r))] = r]
                  /\ Advance(r)
    /\ UNCHANGED <<config, req, registry, sock, cleanups, retries, ports, containers, endpoints>>

\* Variant: the tag check left out, the image list read and ignored.
VerifyImageUnchecked(r) ==
    /\ Running(r, "verifyImage")
    /\ \E o \in Outcomes :
        /\ Fault(o)
        /\ AddLog(r, "listImages", o)
        /\ IF o = "fail" THEN Catch(r, "listImages") ELSE Advance(r)
    /\ UNCHANGED <<config, req, registry, sock, cleanups, retries, ports, containers, images, endpoints>>

\* docker.listImages() and the RepoTags check after the build
VerifyImage(r) ==
    /\ Running(r, "verifyImage")
    /\ \E o \in Outcomes :
        /\ Fault(o)
        /\ AddLog(r, "listImages", o)
        /\ IF o = "fail" THEN Catch(r, "listImages")
           ELSE IF ~TagPresent(Target(r))
                THEN (IF SendThrows THEN SendFailed(r, <<Pct(0)>>)
                      ELSE ReplyWith(r, <<Pct(0)>>, 500, "imageMissing", "none"))
                ELSE Advance(r)
    /\ UNCHANGED <<config, req, registry, sock, cleanups, retries, ports, containers, images, endpoints>>


\* `KEY=value`
EnvEntry(key, value) == <<key, value>>

\* mongoPassword / adminPassword: crypto.randomBytes(16).toString("hex")
randomHex == "hex"

\* the env list the handler writes for the container it is about to create
CallerEnv(r) ==
    CASE Impl(r) = "part_005" ->
            <<EnvEntry("PORT", ToString(InternalPort(r))),
              EnvEntry("INTERNAL_PORT", ToString(InternalPort(r))),
              EnvEntry("CONTAINER_PORT", ToString(HostPort(r))),
              EnvEntry("NGROK_AUTHTOKEN", "token")>>
      [] Impl(r) = "part_006" ->
            <<EnvEntry("PORT", ToString(HostPort(r))),
              EnvEntry("INTERNAL_PORT", ToString(InternalPort(r)))>>
      [] Impl(r) = "part_001" /\ ~SecondInstance(r) ->
            <<EnvEntry("MONGO_INITDB_ROOT_USERNAME", "admin"),
              EnvEntry("MONGO_INITDB_ROOT_PASSWORD", randomHex)>>
      [] Impl(r) = "part_001" /\ SecondInstance(r) ->
            <<EnvEntry("ME_CONFIG_MONGODB_URL",
                       "mongodb://admin:" \o randomHex \o "@" \o Held(r, "addr")
                           \o "/?authSource=admin"),
              EnvEntry("ME_CONFIG_MONGODB_ADMINUSERNAME", "admin"),
              EnvEntry("ME_CONFIG_MONGODB_ADMINPASSWORD", randomHex),
              EnvEntry("ME_CONFIG_MONGODB_PORT", req[r].name),
              EnvEntry("ME_CONFIG_BASICAUTH_USERNAME", "admin"),
              EnvEntry("ME_CONFIG_BASICAUTH_PASSWORD", randomHex)>>
      [] Impl(r) = "part_002" /\ ~SecondInstance(r) ->
            <<EnvEntry("MONGO_INITDB_ROOT_USERNAME", "admin"),
              EnvEntry("MONGO_INITDB_ROOT_PASSWORD", randomHex)>>
      [] Impl(r) = "part_002" /\ SecondInstance(r) ->
            <<EnvEntry("NGROK_AUTHTOKEN", "token")>>

\* Env: [...env, `PORT=${exposedPort}`] of createAndStartContainer
createAndStartContainerEnv(env, exposedPort) ==
    Append(env, EnvEntry("PORT", ToString(exposedPort)))

\* Env of docker.createContainer: deployApplication goes through
\* createAndStartContainer, deployMongoDB calls docker.createContainer itself
Env(r) ==
    IF Impl(r) \in {"part_006", "part_005"}
    THEN createAndStartContainerEnv(CallerEnv(r), HostPort(r))
    ELSE CallerEnv(r)

\* Image of createContainer: the tag the handler built, or in part_002 the
\* pulled reference itself
ImagePresent(r) ==
    IF Impl(r) = "part_002" THEN images[LocalTag(BaseImage(r))] # "none"
    ELSE TagPresent(Target(r))

\* docker.createContainer: the daemon refuses a name in use or a missing image
Create(r) ==
    /\ Running(r, "create")
    /\ LET c == Target(r) IN
       \E o \in OutcomesIf(containers[c].state = "absent" /\ ImagePresent(r)) :
        /\ Fault(o)
        /\ AddLog(r, "createContainer", Res(o))
        /\ IF o = "ok"
           THEN /\ containers' = [containers EXCEPT ![c] =
                        [state |-> "created", owner |-> r, port |-> HostPort(r),
                         env |-> Env(r)]]
                /\ Advance(r)
           ELSE /\ UNCHANGED containers
                /\ Catch(r, "createContainer")
    /\ UNCHANGED <<config, req, registry, sock, cleanups, retries, ports, images, endpoints>>

\* container.start(): fails when the container is gone or the host port is
\* bound ("bind" in the log)
StartC(r) ==
    /\ Running(r, "startC")
    /\ LET c == Target(r)
           mine == containers[c].owner = r /\ containers[c].state = "created"
       IN
       \E o \in OutcomesIf(mine /\ containers[c].port \notin UsedPorts) :
        /\ Fault(o)
        /\ AddLog(r, "start", IF o = "forced" /\ mine THEN "bind" ELSE Res(o))
        /\ IF o = "ok"
           THEN /\ containers' = [containers EXCEPT ![c].state = "running"]
                /\ Advance(r)
           ELSE /\ UNCHANGED containers
                /\ Catch(r, "start")
    /\ UNCHANGED <<config, req, registry, sock, cleanups, retries, ports, images, endpoints>>

\* container.inspect() at the end of createAndStartContainer
Inspect(r) ==
    /\ Running(r, "inspect")
    /\ \E o \in OutcomesIf(containers[Target(r)].owner = r) :
        /\ Fault(o)
        /\ AddLog(r, "inspect", Res(o))
        /\ IF o = "ok" THEN Advance(r) ELSE Catch(r, "inspect")
    /\ UNCHANGED <<config, req, registry, sock, cleanups, retries, ports, containers, images, endpoints>>

\* how the cleanupContainer call in progress ended: "returned" or "threw"
Outcome(r) == IF NoticeThrows(r) THEN "threw" ELSE "returned"

Ended(r, how) ==
    cleanups' = [cleanups EXCEPT ![r] = Append(@, [target |-> ctx[r].target, result |-> how])]

\* cleanupContainer: docker.listContainers({all:true}) and the lookup by name
CleanupList(r) ==
    /\ pc[r] = "cleanupList"
    /\ EventLoopFree
    /\ \E o \in Outcomes :
        /\ Fault(o)
        /\ AddLog(r, "cleanup.list", o)
        /\ IF o = "fail" THEN CleanupThrow(r) /\ Ended(r, "threw")
           ELSE IF NameTaken(ctx[r].target)
                THEN /\ pc' = [pc EXCEPT ![r] = "cleanupStop"]
                     /\ ctx' = [ctx EXCEPT ![r].found = containers[ctx[r].target].owner]
                     /\ UNCHANGED <<at, response, dirs, cleanups, progress, sent, profile>>
                ELSE CleanupReturn(r) /\ Ended(r, Outcome(r))
    /\ UNCHANGED <<config, req, registry, sock, retries, ports, containers, images, endpoints>>

\* Variant: a failed stop ends cleanupContainer without the remove.
CleanupStopGivesUp(r) ==
    /\ pc[r] = "cleanupStop"
    /\ EventLoopFree
    /\ LET c == ctx[r].target IN
       \E o \in OutcomesIf(containers[c].owner = ctx[r].found /\ containers[c].state = "running") :
        /\ Fault(o)
        /\ AddLog(r, "cleanup.stop", Res(o))
        /\ IF o = "ok"
           THEN /\ containers' = [containers EXCEPT ![c].state = "exited"]
                /\ pc' = [pc EXCEPT ![r] = "cleanupRemove"]
                /\ UNCHANGED <<cleanups, at, response, ctx, dirs, progress, sent, profile>>
           ELSE /\ UNCHANGED containers
                /\ CleanupReturn(r)
                /\ Ended(r, Outcome(r))
    /\ UNCHANGED <<config, req, registry, sock, retries, ports, images, endpoints>>

\* cleanupContainer: containerObj.stop({t: 5}), failure swallowed
CleanupStop(r) ==
    /\ pc[r] = "cleanupStop"
    /\ EventLoopFree
    /\ LET c == ctx[r].target IN
       \E o \in OutcomesIf(containers[c].owner = ctx[r].found /\ containers[c].state = "running") :
        /\ Fault(o)
        /\ AddLog(r, "cleanup.stop", Res(o))
        /\ containers' = IF o = "ok" THEN [containers EXCEPT ![c].state = "exited"]
                         ELSE containers
    /\ pc' = [pc EXCEPT ![r] = "cleanupRemove"]
    /\ UNCHANGED <<config, req, registry, sock, cleanups, at, response, ctx, dirs, retries, ports,
                   images, endpoints, progress, sent, profile>>

\* cleanupContainer: containerObj.remove(), failure swallowed; then the return
CleanupRemove(r) ==
    /\ pc[r] = "cleanupRemove"
    /\ EventLoopFree
    /\ LET c == ctx[r].target IN
       \E o \in OutcomesIf(/\ containers[c].owner = ctx[r].found
                           /\ containers[c].state \in {"created", "exited"}) :
        /\ Fault(o)
        /\ AddLog(r, "cleanup.remove", Res(o))
        /\ containers' = IF o = "ok" THEN [containers EXCEPT ![c] = NoContainer]
                         ELSE containers
    /\ CleanupReturn(r)
    /\ Ended(r, Outcome(r))
    /\ UNCHANGED <<config, req, registry, sock, retries, ports, images, endpoints>>

Next ==
    \E r \in Reqs :
        \/ Start(r)
        \/ NameCheck(r)
        \/ EnsureImage(r)
        \/ GetPort(r)
        \/ ReserveDomain(r)
        \/ ReserveAddr(r)
        \/ Build(r)
        \/ BuildDirect(r)
        \/ VerifyImage(r)
        \/ Create(r)
        \/ StartC(r)
        \/ Inspect(r)
        \/ CleanupList(r)
        \/ CleanupStop(r)
        \/ CleanupRemove(r)

Spec == Init /\ [][Next]_vars

\* ------------------------------------------- one request, every language
Languages == SwitchCases \cup {"mongodb", "cobol"}
FileLists == {<<>>, <<"main.go">>, <<"main.go", "go.mod">>}
RunCommands == {NoRunCommand, [given |-> TRUE, words |-> <<"node", "app.js">>]}

\* a request that fails validation (no projectName)
Bystander ==
    [name |-> "b", lang |-> "nodejs", valid |-> FALSE, sid |-> "undefined",
     files |-> <<>>, runCommand |-> NoRunCommand]

SoloWorkloads ==
    {[r \in Reqs |-> IF r = "r1" THEN q ELSE Bystander] :
        q \in [name : {"a"}, lang : Languages, valid : {TRUE}, sid : {"undefined", "s1"},
               files : FileLists, runCommand : RunCommands]}

InitSolo ==
    /\ config \in [appImpl : {"part_006", "part_005"}, mongoImpl : {"part_001"}, tty : {TRUE},
                   token : BOOLEAN]
    /\ req \in SoloWorkloads
    /\ Idle

SpecSolo == InitSolo /\ [][Next]_vars

\* ------------------------------- one request, containers already running
\* A container the host runs from before: docker.listContainers() reports
\* it with its PublicPort whoever started it.
HostContainer(s) ==
    [state |-> "running", owner |-> "host", port |-> RandomPort(s), env |-> <<>>]

\* hosts on which deployify-a is free and running containers bind distinct ports
HostLayouts ==
    {h \in [ContainerNames -> {NoContainer} \cup {HostContainer(s) : s \in 0..(RandomGrain - 1)}] :
        /\ h[Deployify("a")] = NoContainer
        /\ \A c, d \in ContainerNames :
              (c # d /\ h[c] # NoContainer /\ h[d] # NoContainer) => h[c].port # h[d].port}

PortsWorkloads ==
    {[r \in Reqs |-> IF r = "r1" THEN q ELSE Bystander] :
        q \in [name : {"a"}, lang : {"nodejs", "mongodb"}, valid : {TRUE},
               sid : {"undefined"}, files : {<<"server.js">>},
               runCommand : {NoRunCommand}]}

InitPorts ==
    /\ config \in [appImpl : {"part_006", "part_005"}, mongoImpl : {"part_001"}, tty : {TRUE},
                   token : {TRUE}]
    /\ req \in PortsWorkloads
    /\ IdleService
    /\ containers \in HostLayouts

SpecPorts == InitPorts /\ [][Next]_vars

\* --------------------------------------- two requests, one project name
\* paths of the files array of a request
Uploaded(r) == {req[r].files[i] : i \in DOMAIN req[r].files}

\* files the handler writes next to the uploaded ones
Generated(r) ==
    {"Dockerfile", "start.sh", "ngrok.yml"}
        \cup (IF Impl(r) = "part_006" /\ req[r].lang = "golang" /\ NoGoMod(req[r].files)
              THEN {"go.mod"} ELSE {})

\* fs.readdirSync(projectPath) when request r calls buildImageWithRetry: the
\* uploaded files of every request that wrote into PROJECTS_DIR/<projectName>
\* and the files generated for r
BuildContext(r) ==
    UNION {Uploaded(w) : w \in {q \in Reqs : <<(<<"project", req[r].name>>), q>> \in dirs}}
        \cup Generated(r)

ReuseWorkloads ==
    {w \in [Reqs -> [name : {"a"}, lang : {"nodejs", "mongodb"}, valid : {TRUE},
                     sid : {"undefined"}, files : {<<"server.js">>, <<"server.js", "app.py">>},
                     runCommand : {NoRunCommand}]] :
        /\ w["r1"].lang = "nodejs" /\ w["r1"].files = <<"server.js", "app.py">>
        /\ w["r2"].files = <<"server.js">>}

InitReuse ==
    /\ config \in [appImpl : {"part_006", "part_005"}, mongoImpl : {"part_001"}, tty : {TRUE},
                   token : {TRUE}]
    /\ req \in ReuseWorkloads
    /\ Idle

SpecReuse == InitReuse /\ [][Next]_vars

\* ------------------------------------------- one request, uploaded files
MaxFiles == 2
DetectPaths == {"server.js", "app.py", "bad.js", "big.js", "main.go"}
DetectFileLists == UNION {[1..n -> DetectPaths] : n \in 0..MaxFiles}

DetectWorkloads ==
    {[r \in Reqs |-> IF r = "r1" THEN q ELSE Bystander] :
        q \in [name : {"a"}, lang : {"nodejs", "mongodb"}, valid : {TRUE},
               sid : {"undefined"}, files : DetectFileLists,
               runCommand : {NoRunCommand}]}

InitDetect ==
    /\ config \in [appImpl : {"part_006", "part_005"}, mongoImpl : {"part_001"}, tty : {TRUE},
                   token : {TRUE}]
    /\ req \in DetectWorkloads
    /\ Idle

SpecDetect == InitDetect /\ [][Next]_vars

\* ------------------------------------------- getLanguageConfig on its own
InternalPorts == {80, 3000, 8080}
ContainerPorts == {basePort, maxPort - 1}
ResolveRunCommands ==
    {NoRunCommand,
     [given |-> TRUE, words |-> <<>>],
     [given |-> TRUE, words |-> <<"gunicorn">>],
     [given |-> TRUE, words |-> <<"node", "app.js">>],
     [given |-> TRUE, words |-> <<"php", "", "x.php">>]}

\* const config = getLanguageConfig(language, internalPort, containerPort, runCommand)
Resolve(r) ==
    /\ \E language \in ConfigKeys, internalPort \in InternalPorts,
          containerPort \in ContainerPorts, runCommand \in ResolveRunCommands :
            profile' = [profile EXCEPT ![r] =
                           getLanguageConfig(language, internalPort, containerPort, runCommand)]
    /\ UNCHANGED <<config, req, pc, at, log, response, ctx, retries, ports, containers,
                   images, endpoints, dirs, cleanups, faults, progress, sent, registry, sock>>

InitResolve ==
    /\ config = [appImpl |-> "part_005", mongoImpl |-> "part_001", tty |-> TRUE, token |-> TRUE]
    /\ req = [r \in Reqs |-> Bystander]
    /\ Idle

NextResolve == \E r \in Reqs : Resolve(r)

SpecResolve == InitResolve /\ [][NextResolve]_vars

\* ------------------------------------------------ the progress channel
\* everything the deployment handlers read or write
deployment ==
    <<config, req, pc, at, log, response, ctx, retries, ports, containers, images,
      endpoints, dirs, cleanups, faults, progress, profile>>

\* wss.on("connection"): activeConnections.set(sessionId, ws)
WsConnect(w) ==
    /\ sock[w].state = "idle"
    /\ EventLoopFree
    /\ sock' = [sock EXCEPT ![w].state = "open"]
    /\ registry' = [registry EXCEPT ![sock[w].sid] = w]
    /\ UNCHANGED <<deployment, sent>>

\* the connection starts closing: readyState leaves OPEN before "close" fires
WsClosing(w) ==
    /\ sock[w].state = "open"
    /\ EventLoopFree
    /\ sock' = [sock EXCEPT ![w].state = "closing"]
    /\ UNCHANGED <<deployment, sent, registry>>

\* ws.on("close"): activeConnections.delete(sessionId)
WsCloseAborts(w) ==
    /\ sock[w].state = "closing"
    /\ EventLoopFree
    /\ sock' = [sock EXCEPT ![w].state = "closed"]
    /\ registry' = [registry EXCEPT ![sock[w].sid] = "none"]
    /\ pc' = [r \in Reqs |-> IF req[r].sid = sock[w].sid /\ pc[r] \notin {"done", "rejected"}
                              THEN "done" ELSE pc[r]]
    /\ UNCHANGED <<config, req, at, log, response, ctx, retries, ports, containers, images,
                   endpoints, dirs, cleanups, faults, progress, profile, sent>>

WsClose(w) ==
    /\ sock[w].state = "closing"
    /\ EventLoopFree
    /\ sock' = [sock EXCEPT ![w].state = "closed"]
    /\ registry' = [registry EXCEPT ![sock[w].sid] = "none"]
    /\ UNCHANGED <<deployment, sent>>

WsWorkloads ==
    {[r \in Reqs |-> IF r = "r1" THEN q ELSE Bystander] :
        q \in [name : {"a"}, lang : {"nodejs", "mongodb"}, valid : {TRUE},
               sid : {"undefined", "s1", "s9"}, files : {<<"server.js">>},
               runCommand : {NoRunCommand}]}

InitWs ==
    /\ config \in [appImpl : {"part_006", "part_005"}, mongoImpl : {"part_001"}, tty : BOOLEAN,
                   token : {TRUE}]
    /\ req \in WsWorkloads
    /\ Idle

NextWs ==
    \/ Next
    \/ \E w \in Socks : WsConnect(w)
    \/ \E w \in Socks : WsClosing(w)
    \/ \E w \in Socks : WsClose(w)

SpecWs == InitWs /\ [][NextWs]_vars


\* ------------------------------------------------------ shared vocabulary
Finished(r) == pc[r] \in {"done", "rejected"}
IsApp(r) == Impl(r) \in {"part_006", "part_005"}
Ops(r) == {log[r][i][1] : i \in DOMAIN log[r]}
BuildAttempts(r) == {i \in DOMAIN log[r] : log[r][i][1] = "buildImage"}
AllBuildAttemptsFailed(r) ==
    /\ BuildAttempts(r) # {}
    /\ \A i \in BuildAttempts(r) : log[r][i][2] \in {"throw", "streamErr"}
RollbackOps == {"cleanup.list", "cleanup.stop", "cleanup.remove"}
RollbackFailed(r) ==
    \E i \in DOMAIN log[r] : log[r][i][1] \in RollbackOps /\ log[r][i][2] # "ok"
StepFailures(r) ==
    {i \in DOMAIN log[r] : log[r][i][1] \notin RollbackOps /\ log[r][i][2] # "ok"}
OriginalFailure(r) ==
    log[r][CHOOSE i \in StepFailures(r) : \A j \in StepFailures(r) : i <= j][1]

\* what a request has provisioned and not released
OwnedEndpoints(r) == {e \in endpoints : e.owner = r}
OwnedContainers(r) == {c \in ContainerNames : containers[c].owner = r}
OwnedImages(r) == {t \in RepoTags : images[t] = r}
OwnedDirs(r) == {d \in dirs : d[2] = r}
HoldsNothing(r) ==
    /\ OwnedEndpoints(r) = {}
    /\ OwnedContainers(r) = {}
    /\ OwnedImages(r) = {}
    /\ OwnedDirs(r) = {}

\* the container a reserved endpoint of request r is meant to serve
EndpointTarget(e) ==
    IF req[e.owner].lang = "mongodb" /\ e.kind = "domain"
    THEN MongoExpress(e.name)
    ELSE Deployify(e.name)

\* ------------------------------------------------------------------ claims

\* C1: when a deployment request is answered with an error, every external
\* resource it acquired before the failing step (reserved address/domain,
\* built image, created container, project directory) has been released.
C1_RollbackComplete ==
    \A r \in Reqs : response[r].status >= 400 => HoldsNothing(r)

\* C2: the check that no container deployify-<projectName> exists is performed
\* before any port allocation, ngrok reservation, directory write, image pull
\* or build, or container creation of the same request.
ProvisioningOps ==
    {"listContainers", "reserveDomain", "reserveAddr", "pull", "imageExists",
     "buildImage", "listImages", "createContainer", "start", "inspect"}

C2_NameGateFirst ==
    \A r \in Reqs :
        /\ \A i \in DOMAIN log[r] :
              log[r][i][1] \in ProvisioningOps =>
                  \E j \in 1..(i - 1) : log[r][j] = <<"listContainersAll", "ok">>
        /\ (ports[r] # <<>> \/ ~HoldsNothing(r)) =>
              \E j \in DOMAIN log[r] : log[r][j] = <<"listContainersAll", "ok">>

C2_Witness ==
    \E r \in Reqs : response[r].status = 200 /\ ports[r] # <<>> /\ OwnedDirs(r) # {}

C4_ExactlyOneSucceeds ==
    \A r1, r2 \in Reqs :
        (/\ r1 # r2
         /\ IsApp(r1) /\ IsApp(r2)
         /\ req[r1].valid /\ req[r2].valid
         /\ req[r1].name = req[r2].name
         /\ Finished(r1) /\ Finished(r2)
         /\ faults = 0)
        => \E w \in {r1, r2} : \E l \in {r1, r2} \ {w} :
              /\ response[w].status = 200
              /\ response[l].label = "conflict"
              /\ log[l] = << <<"listContainersAll", "ok">> >>
              /\ HoldsNothing(l)

\* C5: if every attempt of buildImageWithRetry failed (thrown by
\* docker.buildImage or reported by the build stream), the request never calls
\* docker.createContainer.
C5_NoCreateAfterFailedBuild ==
    \A r \in Reqs :
        (IsApp(r) /\ AllBuildAttemptsFailed(r)) => "createContainer" \notin Ops(r)

C5_Witness ==
    \E r \in Reqs :
        /\ IsApp(r)
        /\ Cardinality(BuildAttempts(r)) = maxRetries + 1
        /\ AllBuildAttemptsFailed(r)
        /\ response[r].status = 500

\* C6: buildImageWithRetry retries after any failed attempt, so a build whose
\* attempts all failed was attempted exactly maxRetries + 1 times.
C6_RetryAfterAnyFailure ==
    \A r \in Reqs :
        (IsApp(r) /\ Finished(r) /\ AllBuildAttemptsFailed(r))
        => Cardinality(BuildAttempts(r)) = maxRetries + 1

\* C7: cleanupContainer never throws, whatever the listing, stop and remove
\* calls do and whether or not the container exists.
C7_CleanupNeverThrows ==
    \A r \in Reqs : \A i \in DOMAIN cleanups[r] : cleanups[r][i].result = "returned"

\* C8: when a deployment step fails and a rollback sub-operation (listing,
\* stop, remove) fails too, the caller receives the error of the original step.
C8_OriginalErrorKept ==
    \A r \in Reqs :
        (Finished(r) /\ StepFailures(r) # {} /\ RollbackFailed(r))
        => /\ response[r].status >= 500
           /\ response[r].err = OriginalFailure(r)
           /\ (OriginalFailure(r) # "buildImage" => response[r].label # "build")

\* C9: once a request has returned, every endpoint it reserved points at a
\* container of that request that is running.
C9_NoDanglingEndpoint ==
    \A r \in Reqs :
        Finished(r) =>
            \A e \in OwnedEndpoints(r) :
                /\ containers[EndpointTarget(e)].owner = r
                /\ containers[EndpointTarget(e)].state = "running"

\* C10: getAvailablePort returns a port p with 30000 <= p < 40000 that is not
\* a PublicPort in the running-container listing read by that call.
C10_PortInRangeAndFree ==
    \A r \in Reqs : \A i \in DOMAIN ports[r] :
        /\ ports[r][i].port \in basePort..(maxPort - 1)
        /\ ports[r][i].port \notin ports[r][i].seen

C10_Witness ==
    \E r \in Reqs : \E i \in DOMAIN ports[r] : ports[r][i].seen # {}

\* C11: when two concurrent requests with different names were allocated the
\* same host port and no external call fails on its own, the request whose
\* container.start() hits the bound port is answered with a 5xx response that
\* carries the start failure (it is neither left unanswered nor rejected), and
\* none of its steps from the bind failure on changes a container of the
\* other request.
BindFailed(r) == \E i \in DOMAIN log[r] : log[r][i] = <<"start", "bind">>

Terminal(e) == e.num /\ e.val \in {0, 100}
Failure(e) == e.num /\ e.val = 0
NotAbove(a, b) == a.num /\ b.num /\ a.val <= b.val

C12_ProgressMonotone ==
    \A r \in Reqs :
        /\ \A i \in DOMAIN progress[r] : i < Len(progress[r]) => ~Terminal(progress[r][i])
        /\ \A i, j \in DOMAIN progress[r] :
              (i < j /\ ~Failure(progress[r][j])) => NotAbove(progress[r][i], progress[r][j])

\* C13: every request handled by the upload endpoint receives exactly one HTTP
\* response: once its handler has ended, a response has been sent (and the
\* handler sends none after it).
C13_ExactlyOneResponse ==
    /\ [](\A r \in Reqs : Finished(r) => (pc[r] = "done" /\ response[r] # NoResponse))
    /\ [][\A r \in Reqs : response[r] # NoResponse => response'[r] = response[r]]_vars

\* C14: every deployment of a request with a session that passed validation
\* and the name gate and is answered with a 5xx error has sent a terminal
\* progress event with percentage 0 as its last progress event.
PassedGate(r) ==
    /\ log[r] # <<>>
    /\ log[r][1] = <<"listContainersAll", "ok">>
    /\ response[r].label # "conflict"

C14_TerminalEventBeforeError ==
    \A r \in Reqs :
        (/\ pc[r] = "done"
         /\ response[r].status >= 500
         /\ PassedGate(r)
         /\ req[r].sid # "undefined")
        => /\ progress[r] # <<>>
           /\ Failure(progress[r][Len(progress[r])])

Passed(r) == SubSeq(progress'[r], Len(progress[r]) + 1, Len(progress'[r]))
OpenSocketFor(sessionId) ==
    \E w \in Socks : sessionId \in SessionIds /\ registry[sessionId] = w /\ sock[w].state = "open"
Threw(r) ==
    \/ response'[r].err = "sendProgress"
    \/ ctx'[r].err = "sendProgress"
    \/ pc'[r] = "rejected"

C16_ForwardIffOpen ==
    [][\A r \in Reqs :
          progress'[r] # progress[r] =>
              IF OpenSocketFor(req[r].sid)
              THEN sent'[r] = Passed(r)
              ELSE sent'[r] = <<>> /\ ~Threw(r)]_vars

\* C17: in the two-instance MongoDB flow, when the reservation of the Mongo
\* Express domain fails after the MongoDB container was started (and nothing
\* else fails on its own), the request is answered 500 with the reservation
\* failure as its error, and at that point no MongoDB container of the
\* request exists any more.
DomainFailed(r) ==
    /\ Impl(r) = "part_001"
    /\ \E i \in DOMAIN log[r] : log[r][i] = <<"reserveDomain", "fail">>

C18_SecondInstanceFailureLeavesNothing ==
    \A r \in Reqs :
        (SecondInstance(r) /\ pc[r] = "done" /\ response[r].status >= 500)
        => OwnedContainers(r) = {} /\ OwnedEndpoints(r) = {}

\* C19: a valid request whose language tag is outside the supported set is
\* never given a build profile and never built; once it has passed the name
\* gate it is answered with the 4xx unsupported-language error.
SupportedLanguages == SwitchCases \cup {"mongodb"}

C19_UnsupportedLanguageRejected ==
    \A r \in Reqs :
        (req[r].valid /\ req[r].lang \notin SupportedLanguages)
        => /\ profile[r] = NoProfile
           /\ "buildImage" \notin Ops(r)
           /\ (Finished(r) /\ PassedGate(r) /\ faults = 0) =>
                 (response[r].status = 400 /\ response[r].label = "unsupported")

\* C20: for every supported language tag and every internalPort,
\* containerPort and runCommand (present or absent), the profile returned by
\* getLanguageConfig has a non-empty baseImage and a non-empty startCommand.
C20_ProfileComplete ==
    \A r \in Reqs :
        profile[r] # NoProfile =>
            /\ Len(profile[r].baseImage) > 0
            /\ profile[r].baseImage \in RepoTags
            /\ Len(profile[r].startCommand) > 0

C20_Witness ==
    /\ profile["r1"].startCommand = "node server.js"
    /\ profile["r2"].startCommand = "php -S 0.0.0.0:80 -t /var/www/html index.php"

\* C21: a request with a missing projectName, files or language is answered
\* with a 4xx validation error and performs no docker, ngrok or filesystem
\* operation, whatever the server configuration.
C21_InvalidRequestRejected ==
    \A r \in Reqs :
        (~req[r].valid /\ Finished(r))
        => /\ response[r].status \in 400..499
           /\ response[r].label = "invalid"
           /\ log[r] = <<>>
           /\ ports[r] = <<>>
           /\ HoldsNothing(r)

\* stage of deployApplication_v2 that an external call belongs to
StageP5(op) ==
    CASE op = "listContainersAll" -> 1
      [] op = "listContainers" -> 2
      [] op = "reserveDomain" -> 3
      [] op \in {"imageExists", "pull", "buildImage"} -> 5
      [] op = "listImages" -> 6
      [] op \in {"createContainer", "start", "inspect"} -> 7
      [] OTHER -> 0
Succeeded(r) == pc[r] = "done" /\ response[r].status = 200
ContextWritten(r) == <<(<<"project", req[r].name>>), r>> \in dirs

ListedAfterBuild(r) == log'[r] = Append(log[r], <<"listImages", "ok">>)

\* C23: when the build of deployApplication reported success and the image
\* list read afterwards lacks deployify-<name>:latest, that step emits the
\* progress event 0 and answers 5xx, and the request never reaches
\* createContainer.
C23_MissingTagIsFailure ==
    /\ [][\A r \in Reqs :
            (IsApp(r) /\ ListedAfterBuild(r) /\ ~TagPresent(Deployify(req[r].name)))
            => /\ progress'[r] = Append(progress[r], Pct(0))
               /\ response'[r].status \in 500..599
               /\ pc'[r] = "done"]_vars
    /\ [](\A r \in Reqs :
            (IsApp(r) /\ response[r].label = "imageMissing")
            => /\ "createContainer" \notin Ops(r)
               /\ Finished(r)
               /\ OwnedContainers(r) = {})

C23_Witness ==
    \E r \in Reqs :
        /\ IsApp(r) /\ response[r].label = "imageMissing"
        /\ log[r][Len(log[r]) - 1] = <<"buildImage", "okNoTag">>
        /\ progress[r][Len(progress[r])] = Pct(0)

\* createAndStartContainer threw: one of its three docker calls failed
CreateAndStartThrew(r) ==
    \E i \in DOMAIN log[r] :
        /\ log[r][i][1] \in {"createContainer", "start", "inspect"}
        /\ log[r][i][2] # "ok"

\* C24: when createAndStartContainer throws inside deployApplication, the
\* request calls cleanupContainer before it is answered, and once it is
\* answered no container created by it remains.
C24_StartFailureCleansUp ==
    \A r \in Reqs :
        (IsApp(r) /\ Finished(r) /\ CreateAndStartThrew(r))
        => /\ "cleanup.list" \in Ops(r)
           /\ OwnedContainers(r) = {}

\* the rollback of deployMongoDB's catch block starts in this step
EntersRollback(r) == Impl(r) = "part_001" /\ pc[r] = "run" /\ pc'[r] = "cleanupList"

\* C25: when deployMongoDB enters its failure path, the reserved endpoints
\* are released before the first cleanupContainer call, the Mongo Express
\* container is cleaned up before the MongoDB container, and by the time the
\* error response is sent the request holds no endpoint and no build-context
\* directory.
C25_RollbackReverseOrder ==
    /\ [][\A r \in Reqs :
            EntersRollback(r) => {e \in endpoints' : e.owner = r} = {}]_vars
    /\ [](\A r \in Reqs :
            (Impl(r) = "part_001" /\ Finished(r) /\ cleanups[r] # <<>>)
            => /\ cleanups[r][1].target = MongoExpress(req[r].name)
               /\ OwnedEndpoints(r) = {}
               /\ OwnedDirs(r) = {})

\* C26: every percentage passed to sendProgress for a request that passed
\* validation is an integer in 0..100, an empty files array included.
C26_PercentageInRange ==
    \A r \in Reqs :
        req[r].valid =>
            \A k \in DOMAIN progress[r] :
                /\ progress[r][k].num
                /\ progress[r][k].val \in 0..100

\* files of a list in which some detector extracts a port in 1..65535
WithValidMatch(files) ==
    {i \in DOMAIN files : \E k \in Patterns : ValidMatch(Content(files[i])[k])}

\* the port of the first such detector in the first such file
FirstValidPort(files, dflt) ==
    IF WithValidMatch(files) = {} THEN dflt
    ELSE LET f == CHOOSE i \in WithValidMatch(files) : \A j \in WithValidMatch(files) : i <= j
             ok == {k \in Patterns : ValidMatch(Content(files[f])[k])}
         IN Content(files[f])[CHOOSE k \in ok : \A j \in ok : k <= j].val

ProfileDefault(r) == IF Impl(r) = "part_005" THEN defaultInternalPort ELSE defaultInternalPortV1

\* C27: the internal port of a deployment is the port extracted by the
\* first detector with a valid match in the first uploaded file that has
\* one; later files do not override it; with no valid match in any file it
\* is the profile default.
C27_FirstDetectionWins ==
    \A r \in Reqs :
        (IsApp(r) /\ Succeeded(r))
        => response[r].body.internalPort = FirstValidPort(req[r].files, ProfileDefault(r))

\* the request's settings have been resolved and start.sh written
StartScriptWritten(r) == IsApp(r) /\ profile[r] # NoProfile

\* C28: for every supported language, a request with a non-empty runCommand
\* gets exactly that runCommand as the start command of its start.sh.
C28_RunCommandOverrides ==
    \A r \in Reqs :
        (StartScriptWritten(r) /\ req[r].lang \in SupportedLanguages /\ Truthy(req[r].runCommand))
        => profile[r].startCommand = Join(req[r].runCommand.words)

\* ensureImageExists of request r went on to docker.pull in this step
Pulls(r) ==
    /\ Len(log'[r]) = Len(log[r]) + 1
    /\ log'[r][Len(log'[r])][1] = "pull"

\* C29: ensureImageExists(ref) calls docker.pull only when ref is absent
\* from the local images, explicit tags included, so no pull is made for a
\* ref that an earlier pull already brought in; and a failed pull ends the
\* call, with no second pull by the same ensureImageExists.
C29_PullOnlyWhenAbsent ==
    [][\A r \in Reqs :
          Pulls(r) =>
              /\ (log'[r][Len(log'[r])][2] = "ok" => images[LocalTag(BaseImage(r))] = "none")
              /\ (log'[r][Len(log'[r])][2] = "fail" => pc'[r] # "run")]_vars

ReservationOps == {"reserveDomain", "reserveAddr"}
Calls(r, op) == {i \in DOMAIN log[r] : log[r][i][1] = op}
ReservationFailed(r, op) == \E i \in Calls(r, op) : log[r][i][2] = "fail"

\* C30: a deployment calls the ngrok control API at most once per
\* reservation (no retry), and a deployment whose reservation call failed
\* ends with a 5xx response carrying the upstream error message.
C30_ReservationOnceNoRetry ==
    \A r \in Reqs : \A op \in ReservationOps :
        /\ Cardinality(Calls(r, op)) <= 1
        /\ ReservationFailed(r, op) =>
              /\ pc[r] # "run"
              /\ Finished(r) => /\ response[r].status \in 500..599
                                /\ response[r].err = op

\* C31: getAvailablePort terminates whenever the container listing
\* returns, whatever ports the running containers bind: no request is ever
\* left inside the resampling loop.
C31_GetPortTerminates == \A r \in Reqs : pc[r] # "spin"

\* the step in which cleanupContainer's listing returned
Listed(r) == pc[r] = "cleanupList" /\ log'[r] = Append(log[r], <<"cleanup.list", "ok">>)

\* C32: when cleanupContainer's listing holds a container of the given
\* name it attempts stop and then remove, the remove also after a failed
\* stop; when no container has that name it attempts neither and the step
\* changes no container.
C32_StopThenRemove ==
    /\ [][\A r \in Reqs :
            Listed(r) =>
                IF NameTaken(ctx[r].target)
                THEN pc'[r] = "cleanupStop"
                ELSE /\ pc'[r] \notin {"cleanupStop", "cleanupRemove"}
                     /\ containers' = containers]_vars
    /\ [](\A r \in Reqs : \A i \in DOMAIN log[r] :
            /\ log[r][i][1] = "cleanup.stop" =>
                  /\ log[r][i - 1] = <<"cleanup.list", "ok">>
                  /\ IF i = Len(log[r]) THEN pc[r] = "cleanupRemove"
                     ELSE log[r][i + 1][1] = "cleanup.remove"
            /\ log[r][i][1] = "cleanup.remove" => log[r][i - 1][1] = "cleanup.stop")

C32_Witness ==
    \E r \in Reqs : \E i \in DOMAIN log[r] :
        /\ log[r][i][1] = "cleanup.stop" /\ log[r][i][2] # "ok"
        /\ i < Len(log[r])
        /\ log[r][i + 1][1] = "cleanup.remove"

\* request r performed a stop or remove of cleanupContainer in this step
RollsBack(r) ==
    /\ Len(log'[r]) = Len(log[r]) + 1
    /\ log'[r][Len(log'[r])][1] \in {"cleanup.stop", "cleanup.remove"}

\* C33: the rollback of a request stops or removes only containers that
\* request created, so the container of a request that was answered with
\* success stays running whatever another request's failure handling does.
C33_RollbackTouchesOwnOnly ==
    /\ [][\A r \in Reqs : \A c \in ContainerNames :
            (RollsBack(r) /\ containers'[c] # containers[c]) => containers[c].owner = r]_vars
    /\ [](\A r \in Reqs :
            (Succeeded(r) /\ IsApp(r))
            => /\ containers[Deployify(req[r].name)].owner = r
               /\ containers[Deployify(req[r].name)].state = "running")

\* a connection for sessionId whose "close" event has not been delivered
Connected(w, sessionId) == sock[w].sid = sessionId /\ sock[w].state \in {"open", "closing"}

\* C34: the registry maps a sessionId to a socket exactly when some
\* connection for that sessionId is still connected, and the mapped socket
\* is such a connection; so a second connection of a sessionId stays
\* registered when the first one closes.
C34_RegistryTracksOpen ==
    \A s \in SessionIds :
        /\ registry[s] # "none" <=> \E w \in Socks : Connected(w, s)
        /\ registry[s] # "none" => Connected(registry[s], s)

\* request r calls the image build in this step
Builds(r) ==
    /\ IsApp(r)
    /\ Len(log'[r]) = Len(log[r]) + 1
    /\ log'[r][Len(log'[r])][1] = "buildImage"

\* C35: the build context handed to the image build of a deployment holds
\* only the files uploaded in that request and the files generated for it,
\* whatever deployments ran before under the same projectName.
C35_BuildContextOwnFilesOnly ==
    [][\A r \in Reqs : Builds(r) => BuildContext(r) \subseteq Uploaded(r) \cup Generated(r)]_vars

\* ------------------------------- two deployments, both MongoDB services
\* r2 deploys MongoDB under project name "b"; r1 uses project name "a"
MongoWorkloads ==
    {w \in [Reqs -> [name : Names, lang : {"nodejs", "mongodb"}, valid : {TRUE},
                     sid : {"undefined"}, files : {<<"server.js">>},
                     runCommand : {NoRunCommand}]] :
        w["r1"].name = "a" /\ w["r2"].name = "b" /\ w["r2"].lang = "mongodb"}

InitMongo ==
    /\ config \in [appImpl : {"part_006"}, mongoImpl : {"part_001", "part_002"},
                   tty : {TRUE}, token : {TRUE}]
    /\ req \in MongoWorkloads
    /\ Idle

SpecMongo == InitMongo /\ [][Next]_vars

\* the ports getAvailablePort returned to the handler of request r
Obtained(r) == {ports[r][i].port : i \in DOMAIN ports[r]}

\* containers created by MongoDB deployments of different project names
MongoPair(c, d) ==
    /\ containers[c].owner \in Reqs /\ containers[d].owner \in Reqs
    /\ req[containers[c].owner].lang = "mongodb" /\ req[containers[d].owner].lang = "mongodb"
    /\ req[containers[c].owner].name # req[containers[d].owner].name

\* C36: the HostPort of every container a deployment creates is a port
\* getAvailablePort returned to that deployment, and containers of two MongoDB
\* deployments with distinct project names never ask for the same host port.
C36_HostPortsFromGetAvailablePort ==
    /\ \A c \in ContainerNames :
          containers[c].owner \in Reqs => containers[c].port \in Obtained(containers[c].owner)
    /\ \A c, d \in ContainerNames : MongoPair(c, d) => containers[c].port # containers[d].port

\* the handler answered 400 "Unsupported language."
RejectedUnsupported(r) == response[r].status = 400 /\ response[r].label = "unsupported"

\* C37: a request rejected for its unsupported language tag has written no
\* project file, has sent no progress event and has called nothing of docker
\* or ngrok beyond the listing of the name gate.
C37_UnsupportedRejectedFirst ==
    \A r \in Reqs :
        RejectedUnsupported(r) =>
            /\ \A d \in dirs : d[2] # r
            /\ progress[r] = <<>>
            /\ Ops(r) \subseteq {"listContainersAll"}

\* positions of the entries for `key` in an env list
EntriesFor(env, key) == {i \in DOMAIN env : env[i][1] = key}

\* the value the process in the container sees: of several entries for one
\* key the last one is in effect
InEffect(env, key) ==
    env[CHOOSE i \in EntriesFor(env, key) : \A j \in EntriesFor(env, key) : j <= i][2]

\* C38: the Env of a container created through createAndStartContainer has
\* at most one PORT entry, and where the caller's env begins with
\* PORT=<internalPort> (part_005) that value is the one in effect.
C38_SinglePortEntry ==
    \A c \in ContainerNames :
        LET r == containers[c].owner IN
        (r \in Reqs /\ IsApp(r)) =>
            /\ Cardinality(EntriesFor(containers[c].env, "PORT")) <= 1
            /\ Impl(r) = "part_005" =>
                  InEffect(containers[c].env, "PORT") = ToString(InternalPort(r))

====
